---- MODULE Spec2Model ----
(***************************************************************************)
(* A model of populate.py: the template-substitution engine                *)
(* (replace_multiline, the four replace_* filters, do_replacements), the   *)
(* value source (get_github_info, get_populate_ini_settings,               *)
(* get_template_values) and the run of main (populate_files,               *)
(* populate_directories, the git rm / git mv / rmdir / git add tail).      *)
(*                                                                         *)
(* Text is a sequence of one-character strings.  Three specifications:     *)
(*   Spec       the run of main, one action per external operation;        *)
(*   SpecSubst  do_replacements applied key after key to one file content; *)
(*   SpecLoop   the while-loop of replace_multiline, one iteration a step. *)
(***************************************************************************)
EXTENDS Integers, Sequences, FiniteSets, TLC

(***************************************************************************)
(* Strings                                                                 *)
(***************************************************************************)

Min(S) == CHOOSE x \in S : \A y \in S : x <= y

Max(S) == CHOOSE x \in S : \A y \in S : x >= y

Last(seq) == seq[Len(seq)]

Range(seq) == {seq[i] : i \in 1..Len(seq)}

\* Python's s[n:]
Drop(s, n) == SubSeq(s, n + 1, Len(s))

RECURSIVE Cat(_)
\* ''.join(parts)
Cat(parts) == IF parts = <<>> THEN <<>> ELSE Head(parts) \o Cat(Tail(parts))

RECURSIVE Join(_, _)
\* sep.join(parts)
Join(sep, parts) ==
    IF parts = <<>> THEN <<>>
    ELSE IF Len(parts) = 1 THEN Head(parts)
    ELSE Head(parts) \o sep \o Join(sep, Tail(parts))

\* p occurs in s at index i (1-based)
StartsAt(s, p, i) ==
    /\ i >= 1
    /\ i + Len(p) - 1 <= Len(s)
    /\ \A j \in 1..Len(p) : s[i + j - 1] = p[j]

Occurrences(s, p) == {i \in 1..(Len(s) - Len(p) + 1) : StartsAt(s, p, i)}

\* str.find, 1-based, 0 when absent
Find(s, p) == IF Occurrences(s, p) = {} THEN 0 ELSE Min(Occurrences(s, p))

Contains(s, p) == Occurrences(s, p) # {}

\* str.replace(old, new, 1): the first occurrence only
str_replace_first(s, old, new) ==
    LET i == Find(s, old)
    IN  IF i = 0 THEN s
        ELSE SubSeq(s, 1, i - 1) \o new \o Drop(s, i + Len(old) - 1)

RECURSIVE str_replace(_, _, _)
\* str.replace(old, new) for a non-empty old: every non-overlapping
\* occurrence, left to right, in one pass (the result is not scanned again).
str_replace(s, old, new) ==
    LET i == Find(s, old)
    IN  IF i = 0 THEN s
        ELSE SubSeq(s, 1, i - 1) \o new
                 \o str_replace(Drop(s, i + Len(old) - 1), old, new)

\* [ \t] of the indent group
HorizontalWs == {" ", "\t"}

\* \s of the re module, on the characters of the model
Whitespace == {" ", "\t", "\n", "\r", "\f"}

LowerLetters ==
    <<"a", "b", "c", "d", "e", "f", "g", "h", "i", "j", "k", "l", "m",
      "n", "o", "p", "q", "r", "s", "t", "u", "v", "w", "x", "y", "z">>

UpperLetters ==
    <<"A", "B", "C", "D", "E", "F", "G", "H", "I", "J", "K", "L", "M",
      "N", "O", "P", "Q", "R", "S", "T", "U", "V", "W", "X", "Y", "Z">>

\* str.upper / str.lower on one character
UpperChar(c) ==
    IF \E i \in 1..26 : LowerLetters[i] = c
    THEN UpperLetters[CHOOSE i \in 1..26 : LowerLetters[i] = c] ELSE c

LowerChar(c) ==
    IF \E i \in 1..26 : UpperLetters[i] = c
    THEN LowerLetters[CHOOSE i \in 1..26 : UpperLetters[i] = c] ELSE c

\* str.capitalize: first character upper, the rest lower
str_capitalize(w) ==
    [i \in 1..Len(w) |-> IF i = 1 THEN UpperChar(w[i]) ELSE LowerChar(w[i])]

\* length of the run of characters of class C (or of its complement) that
\* s starts with
RunLen(s, C, inside) ==
    LET stops == {i \in 1..Len(s) : (s[i] \in C) # inside}
    IN  IF stops = {} THEN Len(s) ELSE Min(stops) - 1

RECURSIVE str_split(_)
\* str.split(): the whitespace-delimited words, no empty ones
str_split(s) ==
    IF s = <<>> THEN <<>>
    ELSE IF Head(s) \in Whitespace
         THEN str_split(Drop(s, RunLen(s, Whitespace, TRUE)))
         ELSE LET n == RunLen(s, Whitespace, FALSE)
              IN  <<SubSeq(s, 1, n)>> \o str_split(Drop(s, n))

\* string.capwords(s): ' '.join(x.capitalize() for x in s.split())
capwords(s) ==
    LET words == str_split(s)
    IN  Join(<<" ">>, [i \in 1..Len(words) |-> str_capitalize(words[i])])

RECURSIVE EscapeRepr(_, _)
EscapeRepr(s, quote) ==
    LET special == {i \in 1..Len(s) : s[i] \in {"\\", "\n", "\t", "\r", quote}}
    IN  IF special = {} THEN s
        ELSE LET i == Min(special)
                 c == s[i]
                 e == IF c = "\n" THEN <<"\\", "n">>
                      ELSE IF c = "\t" THEN <<"\\", "t">>
                      ELSE IF c = "\r" THEN <<"\\", "r">>
                      ELSE <<"\\", c>>
             IN  SubSeq(s, 1, i - 1) \o e \o EscapeRepr(Drop(s, i), quote)

\* repr() of a str: single quotes, unless the text holds a single quote and
\* no double quote; backslash, newline, tab, return and the quote escaped.
py_repr(s) ==
    LET quote == IF (\E i \in 1..Len(s) : s[i] = "'")
                    /\ ~(\E i \in 1..Len(s) : s[i] = "\"")
                 THEN "\"" ELSE "'"
    IN  <<quote>> \o EscapeRepr(s, quote) \o <<quote>>

RECURSIVE expand_template(_)
\* What regex.sub does to its replacement string before inserting it: \\ is
\* a backslash, \n \t \r the control characters; a backslash before a
\* character that is no ASCII letter or digit stays, with that character.
expand_template(r) ==
    LET escapes == {i \in 1..(Len(r) - 1) : r[i] = "\\"}
    IN  IF escapes = {} THEN r
        ELSE LET i == Min(escapes)
                 c == r[i + 1]
                 e == IF c = "\\" THEN <<"\\">>
                      ELSE IF c = "n" THEN <<"\n">>
                      ELSE IF c = "t" THEN <<"\t">>
                      ELSE IF c = "r" THEN <<"\r">>
                      ELSE <<"\\", c>>
             IN  SubSeq(r, 1, i - 1) \o e \o expand_template(Drop(r, i + 1))

(***************************************************************************)
(* textwrap.wrap(value, drop_whitespace=False, width=w), w >= 1, on text   *)
(* without hyphens                                                         *)
(***************************************************************************)

\* TextWrapper._munge_whitespace: tabs expanded to the next multiple of 8
\* columns, then every whitespace character made a space
RECURSIVE munge_whitespace(_, _)
munge_whitespace(s, col) ==
    LET spaced == [i \in 1..Len(s) |->
                      IF s[i] \in Whitespace THEN " " ELSE s[i]]
        breaks == {i \in 1..Len(s) : s[i] \in {"\t", "\n", "\r"}}
    IN  IF breaks = {} THEN spaced
        ELSE LET i == Min(breaks)
                 c == col + i - 1
                 pad == 8 - (c % 8)
             IN  SubSeq(spaced, 1, i - 1)
                     \o (IF s[i] = "\t"
                         THEN [k \in 1..pad |-> " "]
                                  \o munge_whitespace(Drop(s, i), c + pad)
                         ELSE <<" ">> \o munge_whitespace(Drop(s, i), 0))

\* TextWrapper._split: the runs of spaces and of other characters
RECURSIVE split_chunks(_)
split_chunks(s) ==
    IF s = <<>> THEN <<>>
    ELSE LET n == RunLen(s, {" "}, Head(s) = " ")
         IN  <<SubSeq(s, 1, n)>> \o split_chunks(Drop(s, n))

\* the inner while of _wrap_chunks: chunks taken while they fit
RECURSIVE fill_line(_, _, _)
fill_line(chunks, cur, width) ==
    IF chunks # <<>> /\ Len(cur) + Len(Head(chunks)) <= width
    THEN fill_line(Tail(chunks), cur \o Head(chunks), width)
    ELSE [cur |-> cur, chunks |-> chunks]

\* TextWrapper._wrap_chunks with break_long_words, no drop_whitespace
RECURSIVE wrap_chunks(_, _)
wrap_chunks(chunks, width) ==
    IF chunks = <<>> THEN <<>>
    ELSE LET f == fill_line(chunks, <<>>, width)
             long == f.chunks # <<>> /\ Len(Head(f.chunks)) > width
             space_left == width - Len(f.cur)
             cur == IF long
                    THEN f.cur \o SubSeq(Head(f.chunks), 1, space_left)
                    ELSE f.cur
             rest == IF long
                     THEN <<Drop(Head(f.chunks), space_left)>>
                              \o Tail(f.chunks)
                     ELSE f.chunks
         IN  (IF cur # <<>> THEN <<cur>> ELSE <<>>) \o wrap_chunks(rest, width)

textwrap_wrap(value, width) ==
    wrap_chunks(split_chunks(munge_whitespace(value, 0)), width)

(***************************************************************************)
(* The substitution engine, populate.py lines 129-183                      *)
(***************************************************************************)

OPEN == <<"{", "{", " ">>
CLOSE == <<" ", "}", "}">>
CAPITALIZE == <<"c", "a", "p", "i", "t", "a", "l", "i", "z", "e">>
PYSTRING == <<"p", "y", "s", "t", "r", "i", "n", "g">>
PYTUPLE == <<"p", "y", "t", "u", "p", "l", "e">>

\* '{{{{ {k} }}}}'.format(k=key)
raw_token(key) == OPEN \o key \o CLOSE

\* '{{{{ {k}|{f} }}}}'.format(k=key, f=filter_name)
filter_token(key, filter_name) == OPEN \o key \o <<"|">> \o filter_name \o CLOSE

\* the budget of columns of a wrapped string literal
WRAP_WIDTH == 70

\* number of [ \t] characters right before index j
IndentBefore(text, j) ==
    LET stops == {i \in 1..(j - 1) : text[i] \notin HorizontalWs}
    IN  j - 1 - (IF stops = {} THEN 0 ELSE Max(stops))

\* regex.search(text) for '(?P<indent>[ \t]*)' + re.escape(token): the
\* leftmost match.  A token starts with '{', so a match that starts at i is
\* the whole run of [ \t] from i followed at once by the token, and the
\* leftmost one starts at the least (j - indent before j) over the token's
\* occurrences j.  0 when there is none.
regex_search(text, token) ==
    LET occ == Occurrences(text, token)
    IN  IF occ = {} THEN [start |-> 0, at |-> 0]
        ELSE LET j == CHOOSE j \in occ : \A m \in occ :
                          j - IndentBefore(text, j) <= m - IndentBefore(text, m)
             IN  [start |-> j - IndentBefore(text, j), at |-> j]

\* the lambda of replace_pystrings
pystring_replacement(indent, value) ==
    LET lines == textwrap_wrap(value, WRAP_WIDTH - Len(indent))
    IN  indent \o Join(<<"\n">> \o indent,
                       [i \in 1..Len(lines) |-> py_repr(lines[i])])

\* the lambda of replace_pytuples
pytuple_replacement(indent, value) ==
    Join(<<"\n">>,
         [i \in 1..Len(value) |-> indent \o py_repr(value[i]) \o <<",">>])

replacement_fn(filter_name, indent, value) ==
    IF filter_name = PYSTRING THEN pystring_replacement(indent, value)
    ELSE pytuple_replacement(indent, value)

\* one pass of the loop body, lines 135-142, on a text that has a match
multiline_iteration(text, key, value, filter_name) ==
    LET token == filter_token(key, filter_name)
        m == regex_search(text, token)
        indent == SubSeq(text, m.start, m.at - 1)
        replacement == replacement_fn(filter_name, indent, value)
    IN  SubSeq(text, 1, m.start - 1) \o expand_template(replacement)
            \o Drop(text, m.at + Len(token) - 1)

\* iterations of the while-loop the model follows before it gives the loop
\* up as not ending
MaxIter == 4

\* the text of a loop that has not ended within MaxIter iterations
DIVERGES == <<"<diverges>">>

RECURSIVE multiline_loop(_, _, _, _, _)
multiline_loop(text, key, value, filter_name, fuel) ==
    IF regex_search(text, filter_token(key, filter_name)).at = 0 THEN text
    ELSE IF fuel = 0 THEN DIVERGES
    ELSE multiline_loop(multiline_iteration(text, key, value, filter_name),
                        key, value, filter_name, fuel - 1)

replace_multiline(text, key, value, filter_name) ==
    multiline_loop(text, key, value, filter_name, MaxIter)

replace_pystrings(text, key, value) ==
    IF text = DIVERGES THEN DIVERGES
    ELSE replace_multiline(text, key, value, PYSTRING)

RECURSIVE squash_empty_tuples(_)
\* re.sub(r'[(]\s+[)]', '()', text)
squash_empty_tuples(text) ==
    LET gap(i) == RunLen(Drop(text, i), Whitespace, TRUE)
        matches == {i \in 1..Len(text) :
                       /\ text[i] = "("
                       /\ gap(i) >= 1
                       /\ i + gap(i) + 1 <= Len(text)
                       /\ text[i + gap(i) + 1] = ")"}
    IN  IF matches = {} THEN text
        ELSE LET i == Min(matches)
             IN  SubSeq(text, 1, i - 1) \o <<"(", ")">>
                     \o squash_empty_tuples(Drop(text, i + gap(i) + 1))

replace_pytuples(text, key, value) ==
    LET replaced == replace_multiline(text, key, value, PYTUPLE)
    IN  IF replaced = DIVERGES THEN DIVERGES
        ELSE squash_empty_tuples(replaced)

\* replace_raw with a space after the value
replace_raw_spaced(text, key, value) ==
    str_replace(text, raw_token(key), value \o <<" ">>)

replace_raw(text, key, value) == str_replace(text, raw_token(key), value)

\* replace_capitalize with capwords over the whole text
replace_capitalize_text(text, key, value) ==
    capwords(str_replace(text, filter_token(key, CAPITALIZE), value))

replace_capitalize(text, key, value) ==
    str_replace(text, filter_token(key, CAPITALIZE), capwords(value))

\* a template value: isstr is isinstance(value, str); v is the text, or the
\* tuple of texts
Str(s) == [isstr |-> TRUE, v |-> s]
Tup(t) == [isstr |-> FALSE, v |-> t]

\* func(text=text, key=key, value=value) for the function named func
apply_fn(func, text, key, value) ==
    IF text = DIVERGES THEN DIVERGES
    ELSE IF func = "replace_raw" THEN replace_raw(text, key, value.v)
    ELSE IF func = "replace_capitalize"
    THEN replace_capitalize(text, key, value.v)
    ELSE IF func = "replace_pystrings"
    THEN replace_pystrings(text, key, value.v)
    ELSE replace_pytuples(text, key, value.v)

RECURSIVE do_replacements(_, _, _, _)
do_replacements(text, key, value, fns) ==
    IF fns = <<>> THEN text
    ELSE do_replacements(apply_fn(Head(fns), text, key, value),
                         key, value, Tail(fns))

\* lines 192-195: the functions chosen by the type of the value
fns_for(value) ==
    IF value.isstr
    THEN <<"replace_raw", "replace_capitalize", "replace_pystrings">>
    ELSE <<"replace_pytuples">>

\* the body of the loop over template_values.items(), lines 192-198
substitute_key(text, item) ==
    do_replacements(text, item.key, item.value, fns_for(item.value))

(***************************************************************************)
(* Inputs of the substitution engine                                       *)
(***************************************************************************)

REPO_NAME == <<"r", "e", "p", "o", "_", "n", "a", "m", "e">>
PACKAGE_NAME == <<"p", "a", "c", "k", "a", "g", "e", "_", "n", "a", "m", "e">>
TESTS_REQUIRE == <<"t", "e", "s", "t", "s", "_", "r", "e", "q", "u", "i", "r", "e">>
INSTALL_REQUIRES == <<"i", "n", "s", "t", "a", "l", "l", "_", "r", "e", "q", "u", "i", "r", "e", "s">>

\* values of repo_name: empty, plain, the name of another key, a token of
\* another key, its own raw token after a character, its own pystring token
RepoNameValues ==
    { <<>>,
      <<"w", "i", "d", "g", "e", "t", "s">>,
      <<"a", "c", "m", "e", " ", "t", "o", "o", "l", "s">>,
      PACKAGE_NAME,
      raw_token(PACKAGE_NAME),
      <<"x">> \o raw_token(REPO_NAME),
      filter_token(REPO_NAME, PYSTRING) }

PackageNameValues == { <<"m", "y", "-", "p", "k", "g">> }

TestsRequireValues ==
    { <<>>,
      <<<<"p", "y", "t", "e", "s", "t">>, <<"m", "o", "c", "k">>>>,
      <<filter_token(TESTS_REQUIRE, PYTUPLE)>> }

\* template_values is the dict in its iteration order: a sequence of items
SubstMappings ==
    { << [key |-> REPO_NAME, value |-> Str(r)],
         [key |-> TESTS_REQUIRE, value |-> Tup(t)],
         [key |-> PACKAGE_NAME, value |-> Str(p)] >> :
      r \in RepoNameValues, t \in TestsRequireValues, p \in PackageNameValues }

Prefixes == { <<>>, <<" ", " ", " ", " ">>, <<"(", "\n", " ", " ", " ", " ">>, OPEN }

Tokens ==
    { raw_token(REPO_NAME),
      filter_token(REPO_NAME, CAPITALIZE),
      filter_token(REPO_NAME, PYSTRING),
      filter_token(TESTS_REQUIRE, PYTUPLE),
      raw_token(PACKAGE_NAME),
      raw_token(<<"r", "e", "p", "o", "_", "n", "a", "m">>),
      raw_token(REPO_NAME) \o <<" ">> \o raw_token(REPO_NAME),
      raw_token(REPO_NAME) \o filter_token(TESTS_REQUIRE, PYTUPLE),
      <<"x">>,
      <<>> }

Suffixes == { <<>>, <<"\n", ")">>, CLOSE }

Texts == { p \o t \o s : p \in Prefixes, t \in Tokens, s \in Suffixes }

(***************************************************************************)
(* The value source, populate.py lines 37-126                              *)
(***************************************************************************)

AUTHOR_EMAIL == <<"a", "u", "t", "h", "o", "r", "_", "e", "m", "a", "i", "l">>
AUTHOR_NAME == <<"a", "u", "t", "h", "o", "r", "_", "n", "a", "m", "e">>
COPYRIGHT_YEARS == <<"c", "o", "p", "y", "r", "i", "g", "h", "t", "_", "y", "e", "a", "r", "s">>
GITHUB_USER == <<"g", "i", "t", "h", "u", "b", "_", "u", "s", "e", "r">>
PACKAGE_VERSION == <<"p", "a", "c", "k", "a", "g", "e", "_", "v", "e", "r", "s", "i", "o", "n">>
SHORT_DESCRIPTION == <<"s", "h", "o", "r", "t", "_", "d", "e", "s", "c", "r", "i", "p", "t", "i", "o", "n">>
PACKAGE_DIR_NAME == <<"p", "a", "c", "k", "a", "g", "e", "_", "d", "i", "r", "_", "n", "a", "m", "e">>

StartsWith(s, p) == StartsAt(s, p, 1)

EndsWith(s, p) == Len(p) <= Len(s) /\ StartsAt(s, p, Len(s) - Len(p) + 1)

\* str.strip()
str_strip(s) ==
    LET keep == {i \in 1..Len(s) : s[i] \notin Whitespace}
    IN  IF keep = {} THEN <<>> ELSE SubSeq(s, Min(keep), Max(keep))

\* re.sub('#.*', '', line).strip()
requirement_of(line) ==
    LET hashes == {i \in 1..Len(line) : line[i] = "#"}
    IN  str_strip(IF hashes = {} THEN line
                  ELSE SubSeq(line, 1, Min(hashes) - 1))

\* read_requirements over the lines of the file: comments and blank lines
\* dropped, lines that include another requirements file ignored
read_requirements(lines) ==
    SelectSeq([i \in 1..Len(lines) |-> requirement_of(lines[i])],
              LAMBDA line : line # <<>> /\ ~StartsWith(line, <<"-", "r">>))

\* 'github.com' as the pattern reads it: the dot matches any one character
\* but a newline
HostAt(url, i) ==
    /\ StartsAt(url, <<"g", "i", "t", "h", "u", "b">>, i)
    /\ i + 6 <= Len(url)
    /\ url[i + 6] # "\n"
    /\ StartsAt(url, <<"c", "o", "m">>, i + 7)

DOT_GIT == <<".", "g", "i", "t">>

\* the longest text '.+' can take of rest so that '(?:[.]git)?$' matches
\* what is left: '.+' is greedy and the group is optional; '$' matches at
\* the end and before a newline that ends the text
greedy_repo(rest) ==
    LET takes == {n \in 1..Len(rest) :
                     /\ \A m \in 1..n : rest[m] # "\n"
                     /\ Drop(rest, n) \in {<<>>, DOT_GIT, <<"\n">>,
                                           DOT_GIT \o <<"\n">>}}
    IN  IF takes = {} THEN <<>> ELSE SubSeq(rest, 1, Max(takes))

\* the match of 'github.com[:/](?P<user>[^/]+)/(?P<repo>.+)(?:[.]git)?$'
\* that starts at i: [^/]+ runs to the first '/', which must follow it
github_match_at(url, i) ==
    LET tail == Drop(url, i + 10)
        n == RunLen(tail, {"/"}, FALSE)
        repo == greedy_repo(Drop(tail, n + 1))
    IN  [found |-> /\ HostAt(url, i)
                   /\ i + 10 <= Len(url)
                   /\ url[i + 10] \in {":", "/"}
                   /\ n >= 1
                   /\ n < Len(tail)
                   /\ repo # <<>>,
         user |-> SubSeq(tail, 1, n),
         repo |-> repo]

GITHUB_ERROR ==
    <<"F", "a", "i", "l", "e", "d", " ", "t", "o", " ", "f", "i", "n", "d",
      " ", "a", " ", "G", "i", "t", "H", "u", "b", " ", "u", "s", "e", "r",
      " ", "a", "n", "d", "/", "o", "r", " ", "r", "e", "p", "o", "s", "i",
      "t", "o", "r", "y", " ", "n", "a", "m", "e", " ", "i", "n", " ", "t",
      "h", "e", " ", "o", "u", "t", "p", "u", "t", " ", "o", "f", " ", "\"",
      "g", "i", "t", " ", "c", "o", "n", "f", "i", "g", " ", "-", "-", "g",
      "e", "t", " ", "r", "e", "m", "o", "t", "e", ".", "o", "r", "i", "g",
      "i", "n", ".", "u", "r", "l", "\"", ".">>

INI_ERROR ==
    <<"P", "l", "e", "a", "s", "e", " ", "s", "p", "e", "c", "i", "f", "y",
      " ", "v", "a", "l", "u", "e", "s", " ", "i", "n", " ", "\"", "p", "o",
      "p", "u", "l", "a", "t", "e", ".", "i", "n", "i", "\"", " ", "f", "o",
      "r", " ", "t", "h", "e", " ", "f", "o", "l", "l", "o", "w", "i", "n",
      "g", ":", " ">>

\* str() of a list of str
list_repr(l) ==
    <<"[">> \o Join(<<",", " ">>, [i \in 1..Len(l) |-> py_repr(l[i])])
        \o <<"]">>

\* get_github_info on the output of git config --get remote.origin.url:
\* re.search takes the leftmost start that matches
get_github_info(url) ==
    LET starts == {i \in 1..Len(url) : github_match_at(url, i).found}
    IN  IF starts = {}
        THEN [raised |-> "RuntimeError", message |-> GITHUB_ERROR,
              user |-> <<>>, repo |-> <<>>]
        ELSE [raised |-> "none", message |-> <<>>,
              user |-> github_match_at(url, Min(starts)).user,
              repo |-> github_match_at(url, Min(starts)).repo]

\* get_populate_ini_settings on the three options of section [global]:
\* empty_values keeps the keys that are empty, line 93
get_populate_ini_settings(ini) ==
    LET values == << [key |-> PACKAGE_NAME, value |-> Str(ini.package_name)],
                     [key |-> PACKAGE_VERSION,
                      value |-> Str(ini.package_version)],
                     [key |-> SHORT_DESCRIPTION,
                      value |-> Str(ini.short_description)] >>
        empty_values == SelectSeq([i \in 1..Len(values) |-> values[i].key],
                                  LAMBDA key : key = <<>>)
    IN  IF empty_values # <<>>
        THEN [raised |-> "RuntimeError",
              message |-> INI_ERROR \o list_repr(empty_values), values |-> <<>>]
        ELSE [raised |-> "none", message |-> <<>>, values |-> values]

\* the value of key in the items of a dict
ValueOf(items, key) ==
    items[CHOOSE i \in 1..Len(items) : items[i].key = key].value

\* get_template_values: the dict in its insertion order, or the
\* RuntimeError raised on the way
get_template_values(url, git_config, requirements, ini) ==
    LET info == get_github_info(url)
        settings == get_populate_ini_settings(ini)
        values ==
            << [key |-> AUTHOR_EMAIL, value |-> Str(git_config.email)],
               [key |-> AUTHOR_NAME, value |-> Str(git_config.name)],
               [key |-> COPYRIGHT_YEARS, value |-> Str(git_config.year)],
               [key |-> GITHUB_USER, value |-> Str(info.user)],
               [key |-> REPO_NAME, value |-> Str(info.repo)],
               [key |-> INSTALL_REQUIRES,
                value |-> Tup(read_requirements(requirements.install))],
               [key |-> TESTS_REQUIRE,
                value |-> Tup(read_requirements(requirements.tests))] >>
            \o settings.values
    IN  IF info.raised # "none"
        THEN [raised |-> info.raised, message |-> info.message,
              values |-> <<>>]
        ELSE IF settings.raised # "none"
        THEN [raised |-> settings.raised, message |-> settings.message,
              values |-> <<>>]
        ELSE [raised |-> "none", message |-> <<>>,
              values |-> Append(values,
                  [key |-> PACKAGE_DIR_NAME,
                   value |-> Str(str_replace(
                       ValueOf(values, PACKAGE_NAME).v, <<"-">>, <<"_">>))])]

(***************************************************************************)
(* Paths, the file system under THIS_DIR and the commands run on it        *)
(***************************************************************************)

join(a, b) == a \o <<"/">> \o b

THIS_DIR == <<"/", "p">>
TEMPLATE_DIR == join(THIS_DIR, <<"t", "e", "m", "p", "l", "a", "t", "e">>)
POPULATE_INI == join(THIS_DIR, <<"p", "o", "p", "u", "l", "a", "t", "e", ".", "i", "n", "i">>)
\* abspath(__file__)
SCRIPT == join(THIS_DIR, <<"p", "o", "p", "u", "l", "a", "t", "e", ".", "p", "y">>)
DOT_TEMPLATE == <<".", "t", "e", "m", "p", "l", "a", "t", "e">>

Slashes(path) == {i \in 1..Len(path) : path[i] = "/"}

dirname(path) ==
    IF Slashes(path) = {} THEN <<>> ELSE SubSeq(path, 1, Max(Slashes(path)) - 1)

basename(path) ==
    IF Slashes(path) = {} THEN path ELSE Drop(path, Max(Slashes(path)))

IsUnder(path, dir) == Len(path) > Len(dir) + 1 /\ StartsWith(path, dir \o <<"/">>)

IsChild(path, dir) == IsUnder(path, dir) /\ dirname(path) = dir

\* fnmatch of a name against '{{ * }}'
fnmatch_directory(name) ==
    Len(name) >= Len(OPEN) + Len(CLOSE)
        /\ StartsWith(name, OPEN) /\ EndsWith(name, CLOSE)

\* fnmatch of a name against '*.template'
fnmatch_template(name) == EndsWith(name, DOT_TEMPLATE)

\* re.sub('[.]template$', '', template_path)
populated_path(template_path) ==
    IF EndsWith(template_path, DOT_TEMPLATE)
    THEN SubSeq(template_path, 1, Len(template_path) - Len(DOT_TEMPLATE))
    ELSE template_path

\* the file system: the entries under THIS_DIR in directory order, each
\* [path, isdir, content]
Dir(path) == [path |-> path, isdir |-> TRUE, content |-> <<>>]

File(path, file_content) ==
    [path |-> path, isdir |-> FALSE, content |-> file_content]

Exists(tree, path) == \E i \in 1..Len(tree) : tree[i].path = path

IsDir(tree, path) ==
    \E i \in 1..Len(tree) : tree[i].path = path /\ tree[i].isdir

ContentOf(tree, path) ==
    tree[CHOOSE i \in 1..Len(tree) : tree[i].path = path].content

PathsOf(entries) == [i \in 1..Len(entries) |-> entries[i].path]

\* the generator of find_templated_files, in the order of the walk
find_templated_files(tree) ==
    PathsOf(SelectSeq(tree, LAMBDA e :
        /\ ~e.isdir
        /\ IsUnder(e.path, TEMPLATE_DIR)
        /\ fnmatch_template(basename(e.path))))

\* the dirnames os.walk lists for top (none when top is no directory any
\* more: os.walk passes over the error of scandir)
walk_dirnames(tree, top) ==
    PathsOf(SelectSeq(tree, LAMBDA e : e.isdir /\ IsChild(e.path, top)))

\* os.listdir(dir): the names of the entries of dir; their order in the list
\* is arbitrary
os_listdir(tree, dir) ==
    {basename(tree[i].path) : i \in {j \in 1..Len(tree) : IsChild(tree[j].path, dir)}}

\* where git mv puts src: into dst when dst is a directory, else at dst
mv_target(tree, src, dst) ==
    LET d == IF dst # <<>> /\ Last(dst) = "/" THEN SubSeq(dst, 1, Len(dst) - 1)
             ELSE dst
    IN  IF IsDir(tree, d) THEN join(d, basename(src)) ELSE d

\* whether git mv [-f] src dst can succeed; git knows a directory by the
\* files in it
mv_possible(tree, src, dst, force) ==
    LET target == mv_target(tree, src, dst)
    IN  /\ Exists(tree, src)
        /\ IsDir(tree, src) =>
               \E i \in 1..Len(tree) :
                   ~tree[i].isdir /\ IsUnder(tree[i].path, src)
        /\ target # src
        /\ ~IsUnder(target, src)
        /\ IsDir(tree, dirname(target))
        /\ force \/ ~Exists(tree, target)

\* the file system after git mv [-f] src dst
git_mv(tree, src, dst) ==
    LET target == mv_target(tree, src, dst)
        kept == SelectSeq(tree, LAMBDA e :
                    e.path # target /\ ~IsUnder(e.path, target))
    IN  [i \in 1..Len(kept) |->
            IF kept[i].path = src THEN [kept[i] EXCEPT !.path = target]
            ELSE IF IsUnder(kept[i].path, src)
            THEN [kept[i] EXCEPT !.path = target \o Drop(kept[i].path, Len(src))]
            ELSE kept[i]]

\* the file system after git rm -f path, or rmdir path
remove_entry(tree, path) == SelectSeq(tree, LAMBDA e : e.path # path)

\* the file system after fobj.write(file_content) on path, which open(path,
\* 'w') creates when it is missing
write_file(tree, path, file_content) ==
    IF Exists(tree, path)
    THEN [i \in 1..Len(tree) |->
            IF tree[i].path = path
            THEN [tree[i] EXCEPT !.content = file_content]
            ELSE tree[i]]
    ELSE Append(tree, File(path, file_content))

\* str.splitlines() on lines that end in \n
RECURSIVE splitlines(_)
splitlines(s) ==
    LET n == RunLen(s, {"\n"}, FALSE)
    IN  IF s = <<>> THEN <<>>
        ELSE <<SubSeq(s, 1, n)>> \o splitlines(Drop(s, n + 1))

(***************************************************************************)
(* Inputs of a run of main                                                 *)
(***************************************************************************)

ACME == <<"a", "c", "m", "e">>
WIDGETS == <<"w", "i", "d", "g", "e", "t", "s">>
REQUIREMENTS_TXT == join(TEMPLATE_DIR, <<"r", "e", "q", "u", "i", "r", "e", "m", "e", "n", "t", "s", ".", "t", "x", "t">>)
REQUIREMENTS_TEST_TXT == join(TEMPLATE_DIR, <<"r", "e", "q", "u", "i", "r", "e", "m", "e", "n", "t", "s", "_", "t", "e", "s", "t", ".", "t", "x", "t">>)

\* what git config --get remote.origin.url prints, stripped
RemoteUrls ==
    { <<"g", "i", "t", "@", "g", "i", "t", "h", "u", "b", ".", "c", "o", "m", ":">> \o ACME \o <<"/">> \o WIDGETS \o DOT_GIT,
      <<"h", "t", "t", "p", "s", ":", "/", "/", "g", "i", "t", "h", "u", "b", ".", "c", "o", "m", "/">> \o ACME \o <<"/">> \o WIDGETS,
      <<"h", "t", "t", "p", "s", ":", "/", "/", "g", "i", "t", "h", "u", "b", ".", "c", "o", "m", "/">> \o ACME \o <<"/">> \o WIDGETS \o DOT_GIT,
      <<"g", "i", "t", "@", "g", "i", "t", "l", "a", "b", ".", "c", "o", "m", ":">> \o ACME \o <<"/">> \o WIDGETS \o DOT_GIT,
      <<"g", "i", "t", "@", "g", "i", "t", "h", "u", "b", ".", "c", "o", "m", ":">> \o WIDGETS }

\* the three options of populate.ini, each empty or set
IniSettings ==
    [package_name : {<<>>, <<"m", "y", "-", "p", "k", "g">>},
     package_version : {<<>>, <<"0", ".", "1", ".", "0">>},
     short_description : {<<>>, <<"a", " ", "t", "o", "o", "l">>}]

\* git config user.email, git config user.name, date.today().year
GIT_CONFIG ==
    [email |-> <<"d", "e", "v", "@", "e", "x", "a", "m", "p", "l", "e", ".", "o", "r", "g">>, name |-> <<"A", "d", "a", " ", "D", "e", "v">>, year |-> <<"2", "0", "2", "6">>]

\* names of the directories of the template tree
DOCS == <<"d", "o", "c", "s">>

SubdirNames ==
    { DOCS,
      raw_token(PACKAGE_DIR_NAME),
      raw_token(TESTS_REQUIRE),
      raw_token(REPO_NAME) \o <<"_">> \o raw_token(PACKAGE_NAME) }

NestedNames == { <<>>, raw_token(PACKAGE_NAME), raw_token(TESTS_REQUIRE) }

SETUP_PY ==
    <<"n", "=">> \o filter_token(PACKAGE_NAME, PYSTRING) \o <<"\n", "t", "=", "(", "\n", " ", " ">> \o filter_token(TESTS_REQUIRE, PYTUPLE) \o <<"\n", ")">>

INIT_PY ==
    filter_token(SHORT_DESCRIPTION, CAPITALIZE) \o <<" ">> \o raw_token(REPO_NAME)

\* the tree before the run: template/ holds two template files, the two
\* requirements files, a directory d1 and, when d2 is a name, d1/d2 with a
\* file in it
InitialTree(d1, d2) ==
    << Dir(THIS_DIR),
       File(POPULATE_INI, <<>>),
       File(SCRIPT, <<>>),
       Dir(TEMPLATE_DIR),
       File(join(TEMPLATE_DIR, <<"s", "e", "t", "u", "p", ".", "p", "y", ".", "t", "e", "m", "p", "l", "a", "t", "e">>), SETUP_PY),
       File(REQUIREMENTS_TXT, <<"s", "i", "x", " ", " ", "#", " ", "c", "o", "m", "p", "a", "t", "\n", "-", "r", " ", "r", "e", "q", "u", "i", "r", "e", "m", "e", "n", "t", "s", "_", "t", "e", "s", "t", ".", "t", "x", "t", "\n">>),
       File(REQUIREMENTS_TEST_TXT, <<"p", "y", "t", "e", "s", "t", "\n", "m", "o", "c", "k">>),
       Dir(join(TEMPLATE_DIR, d1)),
       File(join(join(TEMPLATE_DIR, d1), <<"_", "_", "i", "n", "i", "t", "_", "_", ".", "p", "y", ".", "t", "e", "m", "p", "l", "a", "t", "e">>), INIT_PY) >>
    \o (IF d2 = <<>> THEN <<>>
        ELSE << Dir(join(join(TEMPLATE_DIR, d1), d2)),
                File(join(join(join(TEMPLATE_DIR, d1), d2), <<"R", "E", "A", "D", "M", "E">>), <<"x">>) >>)

\* keys applied to one content before the model stops
MaxApplied == 2

\* length of the text up to which the model follows the loop of
\* replace_multiline
MaxTextLen == 80

VARIABLES
    template_values,  \* the value source, in iteration order
    original,         \* the content read from the template file
    before,           \* the content before the last key was applied
    content,          \* the content, rewritten key by key
    applied,          \* the indices of the keys applied, in order
    text,             \* replace_multiline: its local text
    call,             \* replace_multiline: key, value and filter_name
    loop_pc,          \* replace_multiline: "search" or "returned"
    iterations,       \* replace_multiline: passes of the loop body so far
    pc,               \* main: the statement to run next
    remote_url,       \* what git config --get remote.origin.url prints
    populate_ini,     \* the options of populate.ini
    fs,               \* the file system
    files_todo,       \* populate_files: what find_templated_files yields yet
    file_written,     \* populate_files: the first file of files_todo is written
    walk_pending,     \* os.walk of populate_directories: directories to scan
    walk_yield,       \* find_templated_directories: found, not yet yielded
    key_index,        \* populate_directories: the item of the inner loop
    discovered,       \* the directories find_templated_directories yielded
    processed,        \* those whose inner loop has ended
    listing,          \* main: the names os.listdir returned, not yet moved
    ops,              \* the external operations issued, in order
    stdout,           \* the [ERROR] lines printed
    exit_status,      \* the exit status, -1 while running
    raised            \* the exception that ended the run, or "none"

subst_vars == <<original, before, content, applied>>

loop_vars == <<text, call, loop_pc, iterations>>

main_vars ==
    <<pc, remote_url, populate_ini, fs, files_todo, file_written, walk_pending,
      walk_yield, key_index, discovered, processed, listing, ops, stdout,
      exit_status, raised>>

vars == <<template_values, subst_vars, loop_vars, main_vars>>

\* the variables of a run of main before it starts
MainIdle ==
    /\ pc = "get_template_values"
    /\ files_todo = <<>>
    /\ file_written = FALSE
    /\ walk_pending = <<>>
    /\ walk_yield = <<>>
    /\ key_index = 1
    /\ discovered = <<>>
    /\ processed = {}
    /\ listing = {}
    /\ ops = <<>>
    /\ stdout = <<>>
    /\ exit_status = -1
    /\ raised = "none"

MainUnused ==
    /\ MainIdle
    /\ remote_url = <<>>
    /\ populate_ini = [package_name |-> <<>>, package_version |-> <<>>,
                       short_description |-> <<>>]
    /\ fs = <<>>

SubstUnused ==
    /\ original = <<>>
    /\ before = <<>>
    /\ content = <<>>
    /\ applied = <<>>

LoopUnused ==
    /\ text = <<>>
    /\ call = [key |-> <<>>, value |-> <<>>, filter_name |-> <<>>]
    /\ loop_pc = "returned"
    /\ iterations = 0

(***************************************************************************)
(* SpecSubst: do_replacements, key after key, on one content               *)
(***************************************************************************)

InitSubst ==
    /\ template_values \in SubstMappings
    /\ original \in Texts
    /\ before = original
    /\ content = original
    /\ applied = <<>>
    /\ LoopUnused
    /\ MainUnused

\* content = do_replacements(text=content, key=key, value=value, fns=fns),
\* for the i-th item; enabled when its loops end
ApplyKey(i) ==
    /\ Len(applied) < MaxApplied
    /\ substitute_key(content, template_values[i]) # DIVERGES
    /\ content' = substitute_key(content, template_values[i])
    /\ before' = content
    /\ applied' = Append(applied, i)
    /\ UNCHANGED <<template_values, original, loop_vars, main_vars>>

NextSubst == \E i \in 1..Len(template_values) : ApplyKey(i)

SpecSubst == InitSubst /\ [][NextSubst]_vars

(***************************************************************************)
(* SpecLoop: the while-loop of replace_multiline, lines 134-142            *)
(***************************************************************************)

LoopCalls ==
    { [key |-> REPO_NAME, value |-> v, filter_name |-> PYSTRING] :
          v \in RepoNameValues }
    \cup { [key |-> TESTS_REQUIRE, value |-> v, filter_name |-> PYTUPLE] :
               v \in TestsRequireValues }

InitLoop ==
    /\ text \in Texts
    /\ call \in LoopCalls
    /\ loop_pc = "search"
    /\ iterations = 0
    /\ template_values = <<>>
    /\ SubstUnused
    /\ MainUnused

LoopToken == filter_token(call.key, call.filter_name)

\* a match is found: it is replaced and the search starts again
LoopIterate ==
    /\ loop_pc = "search"
    /\ regex_search(text, LoopToken).at # 0
    /\ Len(text) <= MaxTextLen
    /\ text' = multiline_iteration(text, call.key, call.value, call.filter_name)
    /\ iterations' = iterations + 1
    /\ UNCHANGED <<call, loop_pc, template_values, subst_vars, main_vars>>

\* no match: break, return text
LoopBreak ==
    /\ loop_pc = "search"
    /\ regex_search(text, LoopToken).at = 0
    /\ loop_pc' = "returned"
    /\ UNCHANGED <<text, call, iterations, template_values, subst_vars,
                   main_vars>>

NextLoop == LoopIterate \/ LoopBreak

SpecLoop == InitLoop /\ [][NextLoop]_vars

(***************************************************************************)
(* Spec: a run of main, one external operation or loop pass per step       *)
(***************************************************************************)

\* repr() of a tuple of str
tuple_repr(t) ==
    <<"(">> \o Join(<<",", " ">>, [i \in 1..Len(t) |-> py_repr(t[i])])
        \o (IF Len(t) = 1 THEN <<",">> ELSE <<>>) \o <<")">>

\* the text get_template_values prints, lines 120-124
values_report(values) ==
    <<"U", "s", "i", "n", "g", " ", "t", "h", "e", " ", "f", "o", "l", "l", "o", "w", "i", "n", "g", " ", "t", "e", "m", "p", "l", "a", "t", "e", " ", "v", "a", "l", "u", "e", "s", ":", "\n">> \o Join(<<"\n">>, [i \in 1..Len(values) |->
            <<" ", " ", " ", " ">> \o values[i].key \o <<":", " ">>
                \o (IF values[i].value.isstr THEN py_repr(values[i].value.v)
                    ELSE tuple_repr(values[i].value.v))])

\* the line the handler of RuntimeError prints, line 243
error_line_unmarked(message) == message

error_line(message) == <<"[", "E", "R", "R", "O", "R", "]", " ">> \o message

\* the files read_requirements opens, as lines
requirements_of(tree) ==
    [install |-> splitlines(ContentOf(tree, REQUIREMENTS_TXT)),
     tests |-> splitlines(ContentOf(tree, REQUIREMENTS_TEST_TXT))]

\* an external operation: the command or call, its arguments, whether it
\* succeeded
Op(cmd, src, dst, ok) == [cmd |-> cmd, src |-> src, dst |-> dst, ok |-> ok]

\* the external operations of get_template_values, in the order it runs them
ValueSourceReads ==
    << Op("git config", <<"r", "e", "m", "o", "t", "e", ".", "o", "r", "i", "g", "i", "n", ".", "u", "r", "l">>, <<>>, TRUE),
       Op("git config", <<"u", "s", "e", "r", ".", "e", "m", "a", "i", "l">>, <<>>, TRUE),
       Op("git config", <<"u", "s", "e", "r", ".", "n", "a", "m", "e">>, <<>>, TRUE),
       Op("open", REQUIREMENTS_TXT, <<>>, TRUE),
       Op("open", REQUIREMENTS_TEST_TXT, <<>>, TRUE),
       Op("open", POPULATE_INI, <<>>, TRUE) >>

\* check_output and check_call raise CalledProcessError, open and os.listdir
\* raise OSError
exception_of(cmd) ==
    IF cmd \in {"open", "write", "listdir"} THEN "OSError"
    ELSE "CalledProcessError"

RECURSIVE substitute_items(_, _)
\* the loop over template_values.items() of populate_files, lines 191-198
substitute_items(file_content, items) ==
    IF items = <<>> \/ file_content = DIVERGES THEN file_content
    ELSE substitute_items(substitute_key(file_content, Head(items)),
                          Tail(items))

\* the statement of main that follows stmt, lines 224-239
main_next_swapped(stmt) ==
    CASE stmt = "get_template_values" -> "populate_directories"
      [] stmt = "populate_directories" -> "populate_files"
      [] stmt = "populate_files" -> "git_rm_populate_ini"
      [] stmt = "git_rm_populate_ini" -> "git_rm_script"
      [] stmt = "git_rm_script" -> "listdir"
      [] stmt = "listdir" -> "move_to_root"
      [] stmt = "move_to_root" -> "rmdir"
      [] stmt = "rmdir" -> "git_add"
      [] stmt = "git_add" -> "exited"

main_next(stmt) ==
    CASE stmt = "get_template_values" -> "populate_files"
      [] stmt = "populate_files" -> "populate_directories"
      [] stmt = "populate_directories" -> "git_rm_populate_ini"
      [] stmt = "git_rm_populate_ini" -> "git_rm_script"
      [] stmt = "git_rm_script" -> "listdir"
      [] stmt = "listdir" -> "move_to_root"
      [] stmt = "move_to_root" -> "rmdir"
      [] stmt = "rmdir" -> "git_add"
      [] stmt = "git_add" -> "exited"

\* where the run goes when an external operation fails in stmt: the
\* exception is no RuntimeError, leaves main and ends the process
after_failure_retry(stmt) == stmt

after_failure(stmt) == "exited"

InputSubdirNames == SubdirNames \cup {<<"x">> \o raw_token(PACKAGE_NAME)}

Init ==
    /\ remote_url \in RemoteUrls
    /\ populate_ini \in IniSettings
    /\ fs \in {InitialTree(d1, d2) : d1 \in InputSubdirNames, d2 \in NestedNames}
    /\ template_values = <<>>
    /\ MainIdle
    /\ SubstUnused
    /\ LoopUnused

\* the next statement of main starts: the generators of populate_files and
\* populate_directories start with it
Enter(stmt) ==
    /\ pc' = stmt
    /\ files_todo' =
           IF stmt = "populate_files" THEN find_templated_files(fs) ELSE <<>>
    /\ walk_pending' =
           IF stmt = "populate_directories" THEN <<TEMPLATE_DIR>> ELSE <<>>

\* an exception leaves main: the process ends with status 1
Raise(exc) ==
    /\ raised' = exc
    /\ exit_status' = 1
    /\ pc' = after_failure(pc)

ValueSource ==
    get_template_values(remote_url, GIT_CONFIG, requirements_of(fs),
                        populate_ini)

\* template_values = get_template_values() returns the dict
GetTemplateValues ==
    /\ pc = "get_template_values"
    /\ ValueSource.raised = "none"
    /\ template_values' = ValueSource.values
    /\ ops' = ops \o ValueSourceReads
    /\ stdout' = Append(stdout, values_report(ValueSource.values))
    /\ Enter(main_next(pc))
    /\ UNCHANGED <<remote_url, populate_ini, fs, file_written, walk_yield,
                   key_index, discovered, processed, listing, exit_status,
                   raised, subst_vars, loop_vars>>

\* get_template_values raises RuntimeError: get_github_info after the first
\* operation, get_populate_ini_settings after the last; lines 242-244
GetTemplateValuesRaises ==
    /\ pc = "get_template_values"
    /\ ValueSource.raised = "RuntimeError"
    /\ ops' = ops \o (IF get_github_info(remote_url).raised # "none"
                      THEN SubSeq(ValueSourceReads, 1, 1)
                      ELSE ValueSourceReads)
    /\ stdout' = Append(stdout, error_line(ValueSource.message))
    /\ raised' = "RuntimeError"
    /\ exit_status' = 1
    /\ pc' = "exited"
    /\ UNCHANGED <<template_values, remote_url, populate_ini, fs, files_todo,
                   file_written, walk_pending, walk_yield, key_index,
                   discovered, processed, listing, subst_vars, loop_vars>>

\* the k-th external operation of get_template_values fails
GetTemplateValuesFails(k) ==
    /\ pc = "get_template_values"
    /\ k > 1 => get_github_info(remote_url).raised = "none"
    /\ ops' = ops \o SubSeq(ValueSourceReads, 1, k - 1)
                  \o <<[ValueSourceReads[k] EXCEPT !.ok = FALSE]>>
    /\ Raise(exception_of(ValueSourceReads[k].cmd))
    /\ UNCHANGED <<template_values, remote_url, populate_ini, fs, files_todo,
                   file_written, walk_pending, walk_yield, key_index,
                   discovered, processed, listing, stdout, subst_vars,
                   loop_vars>>

\* populate_files, lines 188-201: the next template file is read,
\* substituted for every key and written back.  A write that fails leaves
\* the file as it was or, opened already, truncated.
PopulateFileWrite ==
    /\ pc = "populate_files"
    /\ files_todo # <<>>
    /\ ~file_written
    /\ LET template_path == Head(files_todo)
           new_content ==
               substitute_items(ContentOf(fs, template_path), template_values)
       IN  /\ new_content # DIVERGES
           /\ \E outcome \in {"written", "read fails", "open fails",
                              "write fails"} :
                /\ ops' = ops
                     \o <<Op("open", template_path, <<>>,
                             outcome # "read fails")>>
                     \o (IF outcome = "read fails" THEN <<>>
                         ELSE <<Op("write", template_path, <<>>,
                                   outcome = "written")>>)
                /\ fs' = IF outcome = "written"
                         THEN write_file(fs, template_path, new_content)
                         ELSE IF outcome = "write fails"
                         THEN write_file(fs, template_path, <<>>)
                         ELSE fs
                /\ IF outcome = "written"
                   THEN /\ file_written' = TRUE
                        /\ UNCHANGED <<pc, raised, exit_status>>
                   ELSE /\ Raise("OSError")
                        /\ UNCHANGED file_written
    /\ UNCHANGED <<template_values, remote_url, populate_ini, files_todo,
                   walk_pending, walk_yield, key_index, discovered, processed,
                   listing, stdout, subst_vars, loop_vars>>

\* populate_files, lines 203-204: git mv -f template_path populated_path
PopulateFileMove ==
    /\ pc = "populate_files"
    /\ files_todo # <<>>
    /\ file_written
    /\ LET template_path == Head(files_todo)
           dst == populated_path(template_path)
       IN  \E ok \in BOOLEAN :
             /\ ok => mv_possible(fs, template_path, dst, TRUE)
             /\ ops' = Append(ops, Op("git mv -f", template_path, dst, ok))
             /\ IF ok
                THEN /\ fs' = git_mv(fs, template_path, dst)
                     /\ files_todo' = Tail(files_todo)
                     /\ file_written' = FALSE
                     /\ UNCHANGED <<pc, raised, exit_status>>
                ELSE /\ Raise("CalledProcessError")
                     /\ UNCHANGED <<fs, files_todo, file_written>>
    /\ UNCHANGED <<template_values, remote_url, populate_ini, walk_pending,
                   walk_yield, key_index, discovered, processed, listing,
                   stdout, subst_vars, loop_vars>>

\* find_templated_files is exhausted: populate_files returns
PopulateFilesReturn ==
    /\ pc = "populate_files"
    /\ files_todo = <<>>
    /\ Enter(main_next(pc))
    /\ UNCHANGED <<template_values, remote_url, populate_ini, fs, file_written,
                   walk_yield, key_index, discovered, processed, listing, ops,
                   stdout, exit_status, raised, subst_vars, loop_vars>>

\* find_templated_directories, lines 28-30: os.walk lists the next
\* directory; its subdirectories that match '{{ * }}' are to be yielded,
\* all its subdirectories are walked later, by the path they have now
WalkDirectory ==
    /\ pc = "populate_directories"
    /\ walk_yield = <<>>
    /\ walk_pending # <<>>
    /\ LET dirnames == walk_dirnames(fs, Head(walk_pending))
       IN  /\ walk_yield' =
                  SelectSeq(dirnames, LAMBDA d : fnmatch_directory(basename(d)))
           /\ walk_pending' = dirnames \o Tail(walk_pending)
    /\ UNCHANGED <<template_values, remote_url, populate_ini, fs, files_todo,
                   file_written, key_index, discovered, processed, listing, ops,
                   stdout, exit_status, raised, pc, subst_vars, loop_vars>>

\* template_subdir.replace('{{ key }}', value), line 213
renamed_dir_of(template_subdir, item) ==
    str_replace(template_subdir, raw_token(item.key), item.value.v)

\* populate_directories, lines 210-219: one pass of the loop over the items
\* for the directory yielded last
RenameDirectory ==
    /\ pc = "populate_directories"
    /\ walk_yield # <<>>
    /\ LET template_subdir == Head(walk_yield)
           item == template_values[key_index]
           renamed_dir == renamed_dir_of(template_subdir, item)
           moves == item.value.isstr /\ renamed_dir # template_subdir
           last == key_index = Len(template_values)
       IN  /\ discovered' = IF key_index = 1
                            THEN Append(discovered, template_subdir)
                            ELSE discovered
           /\ \E ok \in BOOLEAN :
                /\ ~moves => ok
                /\ (moves /\ ok) =>
                       mv_possible(fs, template_subdir, renamed_dir, FALSE)
                /\ ops' = IF moves
                          THEN Append(ops, Op("git mv", template_subdir,
                                              renamed_dir, ok))
                          ELSE ops
                /\ fs' = IF moves /\ ok
                         THEN git_mv(fs, template_subdir, renamed_dir)
                         ELSE fs
                /\ IF ok
                   THEN /\ key_index' = IF last THEN 1 ELSE key_index + 1
                        /\ walk_yield' =
                               IF last THEN Tail(walk_yield) ELSE walk_yield
                        /\ processed' =
                               IF last THEN processed \cup {template_subdir}
                               ELSE processed
                        /\ UNCHANGED <<pc, raised, exit_status>>
                   ELSE /\ Raise("CalledProcessError")
                        /\ UNCHANGED <<key_index, walk_yield, processed>>
    /\ UNCHANGED <<template_values, remote_url, populate_ini, files_todo,
                   file_written, walk_pending, listing, stdout, subst_vars,
                   loop_vars>>

\* find_templated_directories is exhausted: populate_directories returns
PopulateDirectoriesReturn ==
    /\ pc = "populate_directories"
    /\ walk_yield = <<>>
    /\ walk_pending = <<>>
    /\ Enter(main_next(pc))
    /\ UNCHANGED <<template_values, remote_url, populate_ini, fs, file_written,
                   walk_yield, key_index, discovered, processed, listing, ops,
                   stdout, exit_status, raised, subst_vars, loop_vars>>

\* git rm -f path at statement stmt, lines 229-230
GitRm(stmt, path) ==
    /\ pc = stmt
    /\ \E ok \in BOOLEAN :
         /\ ok => Exists(fs, path)
         /\ ops' = Append(ops, Op("git rm -f", path, <<>>, ok))
         /\ IF ok
            THEN /\ fs' = remove_entry(fs, path)
                 /\ Enter(main_next(pc))
                 /\ UNCHANGED <<raised, exit_status>>
            ELSE /\ Raise("CalledProcessError")
                 /\ UNCHANGED <<fs, files_todo, walk_pending>>
    /\ UNCHANGED <<template_values, remote_url, populate_ini, file_written,
                   walk_yield, key_index, discovered, processed, listing,
                   stdout, subst_vars, loop_vars>>

GitRmPopulateIni == GitRm("git_rm_populate_ini", POPULATE_INI)

GitRmScript == GitRm("git_rm_script", SCRIPT)

\* os.listdir(TEMPLATE_DIR), line 233
ListTemplateDir ==
    /\ pc = "listdir"
    /\ \E ok \in BOOLEAN :
         /\ ok => IsDir(fs, TEMPLATE_DIR)
         /\ ops' = Append(ops, Op("listdir", TEMPLATE_DIR, <<>>, ok))
         /\ IF ok
            THEN /\ listing' = os_listdir(fs, TEMPLATE_DIR)
                 /\ Enter(main_next(pc))
                 /\ UNCHANGED <<raised, exit_status>>
            ELSE /\ Raise("OSError")
                 /\ UNCHANGED <<listing, files_todo, walk_pending>>
    /\ UNCHANGED <<template_values, remote_url, populate_ini, fs, file_written,
                   walk_yield, key_index, discovered, processed, stdout,
                   subst_vars, loop_vars>>

\* git mv -f join(TEMPLATE_DIR, filename) THIS_DIR, line 234, for the name
\* that comes next in the list
MoveToRoot ==
    /\ pc = "move_to_root"
    /\ \E filename \in listing : \E ok \in BOOLEAN :
         LET src == join(TEMPLATE_DIR, filename)
         IN  /\ ok => mv_possible(fs, src, THIS_DIR, TRUE)
             /\ ops' = Append(ops, Op("git mv -f", src, THIS_DIR, ok))
             /\ IF ok
                THEN /\ fs' = git_mv(fs, src, THIS_DIR)
                     /\ listing' = listing \ {filename}
                     /\ UNCHANGED <<pc, raised, exit_status>>
                ELSE /\ Raise("CalledProcessError")
                     /\ UNCHANGED <<fs, listing>>
    /\ UNCHANGED <<template_values, remote_url, populate_ini, files_todo,
                   file_written, walk_pending, walk_yield, key_index,
                   discovered, processed, stdout, subst_vars, loop_vars>>

\* the loop over os.listdir ends
MoveToRootDone ==
    /\ pc = "move_to_root"
    /\ listing = {}
    /\ Enter(main_next(pc))
    /\ UNCHANGED <<template_values, remote_url, populate_ini, fs, file_written,
                   walk_yield, key_index, discovered, processed, listing, ops,
                   stdout, exit_status, raised, subst_vars, loop_vars>>

\* check_call(('rmdir', TEMPLATE_DIR)), line 237
Rmdir ==
    /\ pc = "rmdir"
    /\ \E ok \in BOOLEAN :
         /\ ok => /\ IsDir(fs, TEMPLATE_DIR)
                  /\ os_listdir(fs, TEMPLATE_DIR) = {}
         /\ ops' = Append(ops, Op("rmdir", TEMPLATE_DIR, <<>>, ok))
         /\ IF ok
            THEN /\ fs' = remove_entry(fs, TEMPLATE_DIR)
                 /\ Enter(main_next(pc))
                 /\ UNCHANGED <<raised, exit_status>>
            ELSE /\ Raise("CalledProcessError")
                 /\ UNCHANGED <<fs, files_todo, walk_pending>>
    /\ UNCHANGED <<template_values, remote_url, populate_ini, file_written,
                   walk_yield, key_index, discovered, processed, listing,
                   stdout, subst_vars, loop_vars>>

\* git('add', '-u'), line 240; main returns and the process ends with
\* status 0
GitAddUpdate ==
    /\ pc = "git_add"
    /\ \E ok \in BOOLEAN :
         /\ ops' = Append(ops, Op("git add -u", <<>>, <<>>, ok))
         /\ IF ok
            THEN /\ Enter(main_next(pc))
                 /\ exit_status' = 0
                 /\ UNCHANGED raised
            ELSE /\ Raise("CalledProcessError")
                 /\ UNCHANGED <<files_todo, walk_pending>>
    /\ UNCHANGED <<template_values, remote_url, populate_ini, fs, file_written,
                   walk_yield, key_index, discovered, processed, listing,
                   stdout, subst_vars, loop_vars>>

Next ==
    \/ GetTemplateValues
    \/ GetTemplateValuesRaises
    \/ \E k \in 1..Len(ValueSourceReads) : GetTemplateValuesFails(k)
    \/ PopulateFileWrite
    \/ PopulateFileMove
    \/ PopulateFilesReturn
    \/ WalkDirectory
    \/ RenameDirectory
    \/ PopulateDirectoriesReturn
    \/ GitRmPopulateIni
    \/ GitRmScript
    \/ ListTemplateDir
    \/ MoveToRoot
    \/ MoveToRootDone
    \/ Rmdir
    \/ GitAddUpdate

Spec == Init /\ [][Next]_vars

(***************************************************************************)
(* Properties of the substitution engine, checked under SpecSubst          *)
(***************************************************************************)

\* the item whose key was applied last
LastItem == template_values[Last(applied)]

FILTERS == {CAPITALIZE, PYSTRING, PYTUPLE}

\* s holds no token of key: neither '{{ key }}' nor '{{ key|filter }}'
NoTokenOfKey(s, key) ==
    /\ ~Contains(s, raw_token(key))
    /\ \A f \in FILTERS : ~Contains(s, filter_token(key, f))

\* s holds a '(' and a ')' with only whitespace, and some, between them
HasEmptyTupleRun(s) ==
    \E i \in 1..Len(s) : \E j \in (i + 2)..Len(s) :
        /\ s[i] = "("
        /\ s[j] = ")"
        /\ \A m \in (i + 1)..(j - 1) : s[m] \in Whitespace

RemoveWs(s) == SelectSeq(s, LAMBDA c : c \notin Whitespace)

BraceFree(s) == \A i \in 1..Len(s) : s[i] \notin {"{", "}"}

ParenFree(s) == \A i \in 1..Len(s) : s[i] \notin {"(", ")"}

\* the texts of a value: the scalar itself, or the elements of the tuple
TextsOf(value) == IF value.isstr THEN {value.v} ELSE Range(value.v)

RECURSIVE BracesOnlyInTokens(_)
\* every '{' and '}' of s belongs to a token '{{ name }}' whose name (a
\* key, or key|filter) holds no brace and no whitespace
BracesOnlyInTokens(s) ==
    LET braces == {i \in 1..Len(s) : s[i] \in {"{", "}"}}
    IN  IF braces = {} THEN TRUE
        ELSE LET i == Min(braces)
                 rest == Drop(s, i + Len(OPEN) - 1)
                 j == Find(rest, CLOSE)
             IN  /\ StartsAt(s, OPEN, i)
                 /\ j > 1
                 /\ \A m \in 1..(j - 1) :
                        rest[m] \notin ({"{", "}"} \cup Whitespace)
                 /\ BracesOnlyInTokens(Drop(rest, j + Len(CLOSE) - 1))

\* no value holds a brace
BraceFreeValues ==
    \A n \in 1..Len(template_values) :
        \A s \in TextsOf(template_values[n].value) : BraceFree(s)

\* no value holds a brace or a parenthesis, and every scalar value is
\* non-empty and ends with a character that is no whitespace
PlainValues ==
    \A n \in 1..Len(template_values) :
        LET value == template_values[n].value
        IN  /\ \A s \in TextsOf(value) : BraceFree(s) /\ ParenFree(s)
            /\ value.isstr => value.v # <<>> /\ Last(value.v) \notin Whitespace

AppliedTwice ==
    /\ Len(applied) >= 2
    /\ applied[Len(applied)] = applied[Len(applied) - 1]

RECURSIVE substitute_keys(_, _)
\* the loop of lines 191-198 over the items with the indices idxs, in order
substitute_keys(s, idxs) ==
    IF idxs = <<>> \/ s = DIVERGES THEN s
    ELSE substitute_keys(substitute_key(s, template_values[Head(idxs)]),
                         Tail(idxs))

RECURSIVE Ascending(_)
\* the indices of S in increasing order: the iteration order of the dict
Ascending(S) ==
    IF S = {} THEN <<>> ELSE <<Min(S)>> \o Ascending(S \ {Min(S)})

DistinctKeysApplied ==
    /\ Len(applied) >= 2
    /\ Cardinality(Range(applied)) = Len(applied)
    /\ applied # Ascending(Range(applied))

\* C3 as stated: the content reached by applying keys in any order is the
\* content reached by applying the same keys in the dict's own order, for
\* every template and every value source.
C3_OrderIndependent ==
    DistinctKeysApplied
        => content = substitute_keys(original, Ascending(Range(applied)))

\* C3, amended: the final content is independent of the order of the keys
\* when no value holds a brace or a parenthesis, every scalar value is
\* non-empty and ends with a non-whitespace character, and every brace of
\* the template belongs to a well-formed token.
C3_OrderIndependentOnPlainInput ==
    (DistinctKeysApplied /\ PlainValues /\ BracesOnlyInTokens(original))
        => content = substitute_keys(original, Ascending(Range(applied)))

\* two keys that both have tokens in the template, applied in the order
\* opposite to the dict's, on plain input
C3_Witness ==
    /\ DistinctKeysApplied
    /\ PlainValues
    /\ BracesOnlyInTokens(original)
    /\ \A n \in Range(applied) : ~NoTokenOfKey(original, template_values[n].key)
    /\ before # original
    /\ content # before

\* C9 as stated: do_replacements for a key returns a text that holds no
\* token of that key unchanged, for scalar and sequence values alike.
C9_NoMatchUnchanged ==
    (applied # <<>> /\ NoTokenOfKey(before, LastItem.key)) => content = before

\* C9, amended: a text that holds no token of the key is returned unchanged
\* when the value is a scalar, and when the value is a sequence and the text
\* has no '(' whitespace ')' run; for a sequence value in general only
\* whitespace is removed.
C9_NoMatchUnchangedButSquash ==
    (applied # <<>> /\ NoTokenOfKey(before, LastItem.key))
        => /\ (LastItem.value.isstr \/ ~HasEmptyTupleRun(before))
                  => content = before
           /\ RemoveWs(content) = RemoveWs(before)

\* a key with no token applied to a text that holds tokens of other keys,
\* for a scalar value
C9_Witness ==
    /\ applied # <<>>
    /\ LastItem.value.isstr
    /\ NoTokenOfKey(before, LastItem.key)
    /\ Contains(before, OPEN)
    /\ content = before

(***************************************************************************)
(* Properties of the loop of replace_multiline (SpecLoop)                  *)
(***************************************************************************)

\* the occurrences of the token of the call in s
TokenCount(s) == Cardinality(Occurrences(s, LoopToken))

\* C1 as stated: every pass of the loop body leaves strictly fewer
\* occurrences of the token '{{ key|filter }}' in the text than it found, so
\* the loop ends.  The code does not keep it: the replacement is built from the
\* value, and a value that holds the token brings in as many occurrences as
\* the pass removes, or more.
C1_OccurrencesDecrease ==
    [][iterations' = iterations + 1 => TokenCount(text') < TokenCount(text)]_vars

(***************************************************************************)
(* Properties of a run of main (Spec)                                      *)
(***************************************************************************)

RequiredSettings ==
    { [key |-> PACKAGE_NAME, value |-> populate_ini.package_name],
      [key |-> PACKAGE_VERSION, value |-> populate_ini.package_version],
      [key |-> SHORT_DESCRIPTION, value |-> populate_ini.short_description] }

\* populate.ini has been read
IniRead ==
    \E i \in 1..Len(ops) :
        ops[i].cmd = "open" /\ ops[i].src = POPULATE_INI /\ ops[i].ok

\* C4 as stated: once populate.ini is read with one of package_name,
\* package_version and short_description empty, RuntimeError is raised and
\* its message, printed after '[ERROR] ', lists that key.  The code does not
\* keep it: line 93 tests the keys, which are never empty, and the mapping is
\* returned with the empty value in it.
C4_EmptySettingRaises ==
    \A setting \in RequiredSettings :
        (IniRead /\ setting.value = <<>>) =>
            /\ raised = "RuntimeError"
            /\ stdout # <<>>
            /\ Contains(Last(stdout), py_repr(setting.key))

\* the operations that change the tree or the index
Mutating ==
    {"write", "git mv -f", "git mv", "git rm -f", "rmdir", "git add -u"}

\* the phase of main an operation belongs to: 1 the write and the move of a
\* template file, 2 the rename of a directory, 3 the move of an entry of
\* template/ to the root, 4 rmdir and git add -u; 0 for the others
Phase(op) ==
    CASE op.cmd = "write" -> 1
      [] op.cmd = "git mv -f" /\ op.dst # THIS_DIR -> 1
      [] op.cmd = "git mv" -> 2
      [] op.cmd = "git mv -f" /\ op.dst = THIS_DIR -> 3
      [] op.cmd \in {"rmdir", "git add -u"} -> 4
      [] OTHER -> 0

TemplateFilesLeft ==
    \E i \in 1..Len(fs) : ~fs[i].isdir /\ fnmatch_template(basename(fs[i].path))

\* C5: the operations of a run come phase after phase: the writes and moves
\* of template files, then the renames of directories, then the moves to the
\* root, then rmdir and git add -u; and once an operation of a later phase
\* has succeeded, no template file is left to write or move.
C5_PhaseOrder ==
    /\ \A i \in 1..Len(ops) : \A j \in (i + 1)..Len(ops) :
           (Phase(ops[i]) > 0 /\ Phase(ops[j]) > 0) =>
               Phase(ops[i]) <= Phase(ops[j])
    /\ (\E i \in 1..Len(ops) : Phase(ops[i]) > 1) => ~TemplateFilesLeft

\* a run that ended with status 0 after it wrote files, renamed a directory
\* and moved entries to the root
C5_Witness ==
    /\ exit_status = 0
    /\ \A p \in 1..4 : \E i \in 1..Len(ops) : Phase(ops[i]) = p /\ ops[i].ok

\* the entries of the tree are the same after the step, but for the file a
\* failed write was on
RestUntouched ==
    /\ Len(fs') = Len(fs)
    /\ \A i \in 1..Len(fs) :
           \/ fs'[i] = fs[i]
           \/ /\ Last(ops').cmd = "write"
              /\ fs[i].path = Last(ops').src
              /\ fs'[i].path = fs[i].path

\* C6: an operation that failed is the last one of the run, which ended
\* with it, with a status that is not 0; the step that fails changes nothing
\* of what the operations before it did, and adds no operation after the
\* failed one.
C6_FailureAborts ==
    /\ [](\A i \in 1..Len(ops) :
             ~ops[i].ok =>
                 /\ i = Len(ops)
                 /\ pc = "exited"
                 /\ exit_status = 1
                 /\ raised \in {"CalledProcessError", "OSError"})
    /\ [][(raised = "none" /\ raised' # "none" /\ raised' # "RuntimeError") =>
              /\ RestUntouched
              /\ ~Last(ops').ok
              /\ \A i \in 1..Len(ops) : ops'[i] = ops[i]]_vars

\* a run that failed in a git command after it had populated and moved a
\* template file, with another template file still in place
C6_Witness ==
    /\ raised = "CalledProcessError"
    /\ pc = "exited"
    /\ \E i \in 1..Len(ops) : ops[i].cmd = "git mv -f" /\ ops[i].ok
    /\ TemplateFilesLeft

GithubPrefixes ==
    { <<"g", "i", "t", "@", "g", "i", "t", "h", "u", "b", ".", "c", "o", "m", ":">>,
      <<"h", "t", "t", "p", "s", ":", "/", "/", "g", "i", "t", "h", "u", "b",
        ".", "c", "o", "m", "/">> }

\* C7 as stated: for a remote URL host[:/]user/repo with or without a
\* trailing '.git', github_user is user and repo_name is repo, without the
\* '.git'.  The code does not keep it: '.+' is greedy and takes the '.git'.
C7_DotGitStripped ==
    \A prefix \in GithubPrefixes : \A suffix \in {<<>>, DOT_GIT} :
        (/\ template_values # <<>>
         /\ remote_url = prefix \o ACME \o <<"/">> \o WIDGETS \o suffix) =>
            /\ ValueOf(template_values, GITHUB_USER).v = ACME
            /\ ValueOf(template_values, REPO_NAME).v = WIDGETS

ScalarItems ==
    {i \in 1..Len(template_values) : template_values[i].value.isstr}

DirectoryMoves == {i \in 1..Len(ops) : ops[i].cmd = "git mv"}

\* the whole name of the directory is the token of the i-th key
WholeToken(dir, i) == basename(dir) = raw_token(template_values[i].key)

\* the path of the directory with its name replaced by the i-th value
NameReplaced(dir, i) == join(dirname(dir), template_values[i].value.v)

\* C8 as stated: a directory whose inner loop has ended and whose whole name
\* is the token of a scalar key has had a move issued to the path with that
\* name replaced by the value; every move issued for such a directory goes
\* to that path; a directory no scalar key changes has no move; every move
\* goes to the path one scalar key makes of the source.  The code does not
\* keep the second: it replaces the token in the whole path, in the names of
\* the directories above as well.
C8_WholeTokenDirectoryMoved ==
    /\ \A d \in processed : \A i \in ScalarItems :
           WholeToken(d, i) =>
               \E m \in DirectoryMoves :
                   ops[m].src = d /\ ops[m].dst = NameReplaced(d, i)
    /\ \A m \in DirectoryMoves : \A i \in ScalarItems :
           WholeToken(ops[m].src, i) =>
               \E n \in DirectoryMoves :
                   ops[n].src = ops[m].src
                       /\ ops[n].dst = NameReplaced(ops[m].src, i)
    /\ \A d \in processed :
           (\A i \in ScalarItems :
                renamed_dir_of(d, template_values[i]) = d) =>
               \A m \in DirectoryMoves : ops[m].src # d
    /\ \A m \in DirectoryMoves : \E i \in ScalarItems :
           ops[m].dst = renamed_dir_of(ops[m].src, template_values[i])

ERROR_MARKER == <<"[", "E", "R", "R", "O", "R", "]", " ">>

ErrorLines == {i \in 1..Len(stdout) : StartsWith(stdout[i], ERROR_MARKER)}

MutatingOps == {i \in 1..Len(ops) : ops[i].cmd \in Mutating}

\* a token of a key of the value source is left in a file
TokenLeft ==
    \E i \in 1..Len(fs) : \E k \in 1..Len(template_values) :
        ~NoTokenOfKey(fs[i].content, template_values[k].key)

\* C10: the mapping is there before the first operation that changes
\* anything, and stays as it is; a run that raised RuntimeError printed one
\* '[ERROR] ' line, ended with status 1 and issued no such operation; a run
\* that ended with status 0 ended with git add -u, with template/,
\* populate.ini and the script gone, no template file and no token of a key
\* left.
C10_ValuesFirst ==
    /\ [](MutatingOps # {} => template_values # <<>>)
    /\ [][template_values # <<>> => template_values' = template_values]_vars
    /\ [](raised = "RuntimeError" =>
             /\ Cardinality(ErrorLines) = 1
             /\ exit_status = 1
             /\ pc = "exited"
             /\ MutatingOps = {})
    /\ [](exit_status = 0 =>
             /\ pc = "exited"
             /\ raised = "none"
             /\ ErrorLines = {}
             /\ Last(ops) = Op("git add -u", <<>>, <<>>, TRUE)
             /\ \A i \in 1..Len(ops) : ops[i].ok
             /\ \A i \in 1..Len(fs) :
                    /\ fs[i].path \notin {TEMPLATE_DIR, POPULATE_INI, SCRIPT}
                    /\ ~IsUnder(fs[i].path, TEMPLATE_DIR)
             /\ ~TemplateFilesLeft
             /\ ~TokenLeft)

\* a run that get_github_info ended with RuntimeError
C10_Witness ==
    /\ raised = "RuntimeError"
    /\ exit_status = 1
    /\ ErrorLines # {}
    /\ ops # <<>>

====
